---- MODULE Spec2Model ----
(***************************************************************************)
(* The <lite-vimeo> custom element (src/lite-vimeo.ts): attribute surface,  *)
(* attribute-change lifecycle, thumbnail resolver, activation trigger and   *)
(* connection warm-up, as a state machine over the callbacks the browser    *)
(* delivers to the element.                                                 *)
(*                                                                          *)
(* Strings are sequences of tokens (characters where the code looks inside  *)
(* them, longer literals where it only concatenates them).  An optional     *)
(* value (an attribute that may be absent, an image source not yet set) is  *)
(* a sequence of length 0 or 1: None, or Some(v).                           *)
(***************************************************************************)
EXTENDS Integers, Sequences, FiniteSets, Bags

\* ---------------------------------------------------------------- bounds
\* component setups (effective videoid changes) per page
MaxSetups == 2
\* times one element is connected to a document (each adds a click listener)
MaxConnects == 2
\* length of a thumbnail_large string drawn for the resolver
MaxUrlLen == 4

\* ---------------------------------------------------------------- values
None == << >>
Some(v) == << v >>

\* the element instances a page may hold
Elems == {"e1", "e2"}

\* values the page gives the videoid attribute ("" included)
VideoIdValues == { << >>, <<"1">>, <<"/">> }
\* values the page gives the videoplay attribute
VideoPlayValues == { <<"3s">> }
\* values the page gives the videotitle attribute
VideoTitleValues == { <<"T">> }

AttrNames == {"videoid", "videotitle", "videoplay", "autoload", "autoplay", "title"}

RECURSIVE Flatten(_)
Flatten(ss) == IF ss = << >> THEN << >> ELSE Head(ss) \o Flatten(Tail(ss))

\* s contains t as a contiguous substring
Contains(s, t) ==
    \E i \in 1..(Len(s) + 1) :
        /\ i + Len(t) - 1 <= Len(s)
        /\ SubSeq(s, i, i + Len(t) - 1) = t

\* all sequences over S of length at most n
RECURSIVE SeqsUpTo(_, _)
SeqsUpTo(S, n) ==
    IF n = 0 THEN { << >> }
    ELSE LET shorter == SeqsUpTo(S, n - 1)
         IN  shorter \cup { Append(s, c) : s \in shorter, c \in S }

Last(s) == s[Len(s)]

\* ------------------------------------------------- platform string functions
\* characters encodeURIComponent leaves alone (the ones the model uses)
Unreserved == {"1", "2", "3", "6", "7", "8", "9", "s", "T", "_", "."}

\* encodeURIComponent on one character: "/" is escaped as %2F
EncodeChar(c) == IF c \in Unreserved THEN << c >> ELSE << "%", "2", "F" >>

encodeURIComponent(s) == Flatten([i \in 1..Len(s) |-> EncodeChar(s[i])])

\* String.prototype.lastIndexOf: 0-based index of the last c in s, or -1
lastIndexOf(s, c) ==
    LET hits == { i \in 1..Len(s) : s[i] = c }
    IN  IF hits = {} THEN -1
        ELSE (CHOOSE i \in hits : \A j \in hits : j <= i) - 1

\* String.prototype.substr(start), start >= 0 and 0-based
substr(s, start) == SubSeq(s, start + 1, Len(s))

\* String.prototype.split(sep): the fields of s between occurrences of sep
RECURSIVE split(_, _)
split(s, sep) ==
    LET hits == { i \in 1..Len(s) : s[i] = sep }
    IN  IF hits = {} THEN << s >>
        ELSE LET i == CHOOSE k \in hits : \A j \in hits : k <= j
             IN  << SubSeq(s, 1, i - 1) >> \o split(SubSeq(s, i + 1, Len(s)), sep)

\* HTMLLinkElement.href: an origin-only URL is serialised with the path "/"
Href(url) == IF Last(url) = "/" THEN url ELSE Append(url, "/")

\* ------------------------------------------------- configuration surface
\* a: the attribute storage of one element, AttrNames -> None | Some(value)
getAttribute(a, name) == a[name]
hasAttribute(a, name) == a[name] # None

\* getAttribute(name) || dflt: an absent or empty attribute gives dflt
OrDefault(opt, dflt) == IF opt = None \/ opt[1] = << >> THEN dflt ELSE opt[1]

videoId(a) == encodeURIComponent(OrDefault(getAttribute(a, "videoid"), << >>))
videoTitle(a) == OrDefault(getAttribute(a, "videotitle"), << "Video" >>)
videoPlay(a) == OrDefault(getAttribute(a, "videoplay"), << "Play" >>)
videoStartAt(a) == OrDefault(getAttribute(a, "videoplay"), << "0s" >>)
autoLoad(a) == hasAttribute(a, "autoload")
autoPlay(a) == hasAttribute(a, "autoplay")

observedAttributes == {"videoid"}

\* `${this.videoPlay}: ${this.videoTitle}`
Label(a) == videoPlay(a) \o << ": " >> \o videoTitle(a)

\* ------------------------------------------------- state
VARIABLES
    elems,             \* the element instances constructed on the page
    attrs,             \* attribute storage of each element
    iframeLoaded,      \* private iframeLoaded flag of each element
    domRefFrame,       \* #frame: its class list and its iframe children
    domRefImg,         \* placeholder: webp/jpeg srcset, fallback src, labels
    domRefPlayButton,  \* aria-label of the play button
    observers,         \* the IntersectionObservers each element has created
    fetches,           \* suspended initImagePlaceholder calls (fetch in flight)
    listeners,         \* listeners connectedCallback has registered
    head,              \* <link> elements appended to document.head
    preconnected,      \* static LiteVimeoEmbed.preconnected
    server,            \* what the metadata endpoint answers for each video id
    rejections,        \* whether a promise of the component was rejected, unhandled
    last               \* history: the callback that ran last

vars == << elems, attrs, iframeLoaded, domRefFrame, domRefImg, domRefPlayButton,
           observers, fetches, listeners, head, preconnected, server,
           rejections, last >>

\* everything one element owns
elemVars == << attrs, iframeLoaded, domRefFrame, domRefImg, domRefPlayButton,
               observers, fetches, listeners >>

\* ------------------------------------------------- the metadata endpoint
\* A response: the fetch rejects (ok = FALSE), or resolves to a JSON array
\* `body` of objects; an object may lack thumbnail_large (has = FALSE), and
\* thumbnail_large is a string or something else (a number).
Reject == [ok |-> FALSE, body |-> << >>]
Json(body) == [ok |-> TRUE, body |-> body]
NoField == [has |-> FALSE, type |-> "undefined", thumbnail_large |-> << >>]
Field(type, v) == [has |-> TRUE, type |-> type, thumbnail_large |-> v]

\* characters of the thumbnail_large strings drawn for the resolver
UrlChars == {"/", "_", "9"}

\* what the endpoint may answer: a failure of each kind, or any short string
Responses ==
    { Reject, Json(<< >>), Json(<< NoField >>), Json(<< Field("number", << >>) >>) }
    \cup { Json(<< Field("string", t) >>) : t \in SeqsUpTo(UrlChars, MaxUrlLen) }

\* encoded ids the page can ask for
EncodedIds == { encodeURIComponent(v) : v \in VideoIdValues }

\* the endpoint knows two videos; /video/.json is no JSON document
DefaultServer ==
    [ id \in EncodedIds |->
        IF id = << "1" >>
        THEN Json(<< Field("string", << "h", "/", "7", "_", "6" >>) >>)
        ELSE IF id = << "%", "2", "F" >>
        THEN Json(<< Field("string", << "h", "/", "8", "_", "6" >>) >>)
        ELSE Reject ]

\* ------------------------------------------------- construction
NoAttrs == [n \in AttrNames |-> None]

\* the state of freshly constructed elements on a page without hints
Constructed ==
    /\ attrs = [e \in Elems |-> NoAttrs]
    /\ iframeLoaded = [e \in Elems |-> FALSE]
    /\ domRefFrame = [e \in Elems |-> [classList |-> {}, iframes |-> << >>]]
    /\ domRefImg = [e \in Elems |->
            [webp |-> None, jpeg |-> None, src |-> None,
             ariaLabel |-> None, alt |-> None]]
    /\ domRefPlayButton = [e \in Elems |-> None]
    /\ observers = [e \in Elems |-> EmptyBag]
    /\ fetches = [e \in Elems |-> EmptyBag]
    /\ listeners = [e \in Elems |-> [click |-> 0, pointerover |-> FALSE]]
    /\ head = << >>
    /\ preconnected = FALSE
    /\ rejections = FALSE
    /\ last = [op |-> "constructor", e |-> "e1", n |-> 1]

\* a page with one element
Init ==
    /\ elems = {"e1"}
    /\ server = DefaultServer
    /\ Constructed

\* a page with several elements
InitPage ==
    /\ elems = Elems
    /\ server = DefaultServer
    /\ Constructed

\* a page with one element, whose video "1" the endpoint answers with any of
\* Responses
InitThumb ==
    /\ elems = {"e1"}
    /\ server \in { [DefaultServer EXCEPT ![<< "1" >>] = r] : r \in Responses }
    /\ Constructed

\* ------------------------------------------------- connection warm-up
addPrefetch(h, kind, url) == Append(h, [rel |-> kind, href |-> Href(url)])

\* warmConnections that forgets to set LiteVimeoEmbed.preconnected
warmConnectionsFlagNotSet(g) ==
    [ head |->
        addPrefetch(
          addPrefetch(
            addPrefetch(g.head, "preconnect", << "https://f.vimeocdn.com" >>),
            "preconnect", << "https://player.vimeo.com" >>),
          "preconnect", << "https://i.vimeocdn.com" >>),
      preconnected |-> g.preconnected ]

\* g = [head, preconnected]: the page-wide state warmConnections works on
warmConnections(g) ==
    IF g.preconnected THEN g
    ELSE [ head |->
             addPrefetch(
               addPrefetch(
                 addPrefetch(g.head, "preconnect", << "https://f.vimeocdn.com" >>),
                 "preconnect", << "https://player.vimeo.com" >>),
               "preconnect", << "https://i.vimeocdn.com" >>),
           preconnected |-> TRUE ]

Page == [head |-> head, preconnected |-> preconnected]

\* ------------------------------------------------- activation
\* new URL(`/video/${videoId}?${apValue}&#t=${videoStartAt}`, "https://player.vimeo.com/")
\* apValue that ignores the autoplay attribute once autoload is set
apValueAutoLoadOnly(a) == IF ~autoLoad(a) THEN << "autoplay=1" >> ELSE << >>

apValue(a) ==
    IF (autoLoad(a) /\ autoPlay(a)) \/ ~autoLoad(a) THEN << "autoplay=1" >> ELSE << >>

srcUrl(a) ==
    << "https://player.vimeo.com", "/video/" >> \o videoId(a) \o << "?" >>
        \o apValue(a) \o << "&", "#t=" >> \o videoStartAt(a)

\* addIframe without the iframeLoaded guard
addIframeUnguarded(a, st) ==
    [ iframeLoaded |-> TRUE,
      frame |-> [ classList |-> st.frame.classList \cup {"lvo-activated"},
                  iframes |-> Append(st.frame.iframes, [src |-> srcUrl(a)]) ] ]

\* addIframe without classList.add('lvo-activated')
addIframeNoClass(a, st) ==
    IF ~st.iframeLoaded
    THEN [ iframeLoaded |-> TRUE,
           frame |-> [ classList |-> st.frame.classList,
                       iframes |-> Append(st.frame.iframes, [src |-> srcUrl(a)]) ] ]
    ELSE st

\* st = [iframeLoaded, frame] of the element whose attributes are a
addIframe(a, st) ==
    IF ~st.iframeLoaded
    THEN [ iframeLoaded |-> TRUE,
           frame |-> [ classList |-> st.frame.classList \cup {"lvo-activated"},
                       iframes |-> Append(st.frame.iframes, [src |-> srcUrl(a)]) ] ]
    ELSE st

Activation(e) == [iframeLoaded |-> iframeLoaded[e], frame |-> domRefFrame[e]]

RECURSIVE Times(_, _, _)
\* addIframe run n times in a row (one run per registered click listener)
Times(n, a, st) == IF n = 0 THEN st ELSE Times(n - 1, a, addIframe(a, st))

\* history: a click, a change of videoid or another callback ran on e; n counts
\* clicks in a row (capped at 2)
Ran(op, e) ==
    [op |-> IF op \in {"videoid", "click"} THEN op ELSE "other", e |-> e,
     n |-> IF op = "click" /\ last.op = op /\ last.e = e THEN 2 ELSE 1]

\* ------------------------------------------------- thumbnail resolver
\* the image id cut at the first "/" instead of the last
imgIdFirstSlash(tnLarge) ==
    LET hits == { i \in 1..Len(tnLarge) : tnLarge[i] = "/" }
        first == IF hits = {} THEN -1
                 ELSE (CHOOSE i \in hits : \A j \in hits : i <= j) - 1
    IN  split(substr(tnLarge, first + 1), "_")[1]

\* the image id in a thumbnail_large string:
\* (tnLarge.substr(tnLarge.lastIndexOf("/") + 1)).split("_")[0]
imgId(tnLarge) == split(substr(tnLarge, lastIndexOf(tnLarge, "/") + 1), "_")[1]

posterUrlWebp(id) ==
    << "https://i.vimeocdn.com/video/" >> \o id \o << ".webp?mw=1100&mh=619&q=70" >>
posterUrlJpeg(id) ==
    << "https://i.vimeocdn.com/video/" >> \o id \o << ".jpg?mw=1100&mh=619&q=70" >>

\* The part of initImagePlaceholder after the await, on response r, for an
\* element whose attributes are a and whose placeholder is img: it throws (the
\* promise is rejected) when the fetch rejected, when r.body[0] is undefined,
\* and when thumbnail_large is no string (undefined.substr, (5).substr(...)).
Throws(r) ==
    \/ ~r.ok
    \/ r.body = << >>
    \/ ~r.body[1].has
    \/ r.body[1].type # "string"

resolvePlaceholder(r, a, img) ==
    IF Throws(r) THEN img
    ELSE LET id == imgId(r.body[1].thumbnail_large)
         IN  [ webp |-> Some(posterUrlWebp(id)),
               jpeg |-> Some(posterUrlJpeg(id)),
               src |-> Some(posterUrlJpeg(id)),
               ariaLabel |-> Some(Label(a)),
               alt |-> Some(Label(a)) ]

\* the part of initImagePlaceholder before the await: one preconnect hint, and
\* the request for the video id the element has now
initImagePlaceholderHead(h) ==
    addPrefetch(h, "preconnect", << "https://i.vimeocdn.com", "/" >>)

\* pending: the bag of video ids whose requests are in flight
initImagePlaceholderFetch(a, pending) == pending (+) SetToBag({ videoId(a) })

\* ------------------------------------------------- intersection observer
\* observing: the observer still observes the element.  History: seen, it has
\* received an intersecting entry; fired, how often its callback ran addIframe.
NewObserver == [observing |-> TRUE, seen |-> FALSE, fired |-> 0]

\* obs: the bag of the element's observers (observers in the same state are
\* not told apart)
initIntersectionObserver(obs) == obs (+) SetToBag({ NewObserver })

\* the observer callback without observer.unobserve(this)
observerCallbackKeepsObserving(o, isIntersecting, loaded) ==
    IF isIntersecting /\ ~loaded
    THEN [observing |-> TRUE, seen |-> TRUE, fired |-> o.fired + 1]
    ELSE [o EXCEPT !.seen = o.seen \/ isIntersecting]

\* the observer callback on one entry: o the observer, loaded this.iframeLoaded
observerCallback(o, isIntersecting, loaded) ==
    IF isIntersecting /\ ~loaded
    THEN [observing |-> FALSE, seen |-> TRUE, fired |-> o.fired + 1]
    ELSE [o EXCEPT !.seen = o.seen \/ isIntersecting]

\* ------------------------------------------------- attribute-change lifecycle
\* setupComponent: this.setAttribute('title', ...)
setupComponentTitle(a) == [a EXCEPT !["title"] = Some(Label(a))]

\* the class is removed and the iframe is left in the frame
removePreviousIframeKeepsIframe(frame) ==
    [ classList |-> frame.classList \ {"lvo-activated"}, iframes |-> frame.iframes ]

\* "if we have a previous iframe, remove it and the activated class"
removePreviousIframe(frame) ==
    IF "lvo-activated" \in frame.classList
    THEN [ classList |-> frame.classList \ {"lvo-activated"},
           iframes |-> IF frame.iframes = << >> THEN << >> ELSE Tail(frame.iframes) ]
    ELSE frame

SetupsDone == Len(head) - (IF preconnected THEN 3 ELSE 0)

\* the callback without the test oldVal !== newVal
attributeChangedCallbackAnyCall(e, name, oldVal, newVal, a) ==
    IF name \in observedAttributes
    THEN /\ SetupsDone < MaxSetups
         /\ attrs' = [attrs EXCEPT ![e] = setupComponentTitle(a)]
         /\ head' = initImagePlaceholderHead(head)
         /\ fetches' = [fetches EXCEPT ![e] = initImagePlaceholderFetch(a, @)]
         /\ domRefPlayButton' = [domRefPlayButton EXCEPT ![e] = Some(Label(a))]
         /\ observers' = [observers EXCEPT ![e] =
                IF autoLoad(a) THEN initIntersectionObserver(@) ELSE @]
         /\ domRefFrame' = [domRefFrame EXCEPT ![e] = removePreviousIframe(@)]
         /\ UNCHANGED << iframeLoaded, domRefImg, listeners, preconnected,
                         rejections >>
    ELSE /\ attrs' = [attrs EXCEPT ![e] = a]
         /\ UNCHANGED << iframeLoaded, domRefFrame, domRefImg, domRefPlayButton,
                         observers, fetches, listeners, head, preconnected,
                         rejections >>

\* the callback removing the iframe only when there was a previous video id
attributeChangedCallbackPreviousId(e, name, oldVal, newVal, a) ==
    IF name \in observedAttributes /\ oldVal # newVal
    THEN /\ SetupsDone < MaxSetups
         /\ attrs' = [attrs EXCEPT ![e] = setupComponentTitle(a)]
         /\ head' = initImagePlaceholderHead(head)
         /\ fetches' = [fetches EXCEPT ![e] = initImagePlaceholderFetch(a, @)]
         /\ domRefPlayButton' = [domRefPlayButton EXCEPT ![e] = Some(Label(a))]
         /\ observers' = [observers EXCEPT ![e] =
                IF autoLoad(a) THEN initIntersectionObserver(@) ELSE @]
         /\ domRefFrame' = [domRefFrame EXCEPT ![e] =
                IF oldVal # None THEN removePreviousIframe(@) ELSE @]
         /\ UNCHANGED << iframeLoaded, domRefImg, listeners, preconnected,
                         rejections >>
    ELSE /\ attrs' = [attrs EXCEPT ![e] = a]
         /\ UNCHANGED << iframeLoaded, domRefFrame, domRefImg, domRefPlayButton,
                         observers, fetches, listeners, head, preconnected,
                         rejections >>

\* a: the element's attributes with the change applied
attributeChangedCallback(e, name, oldVal, newVal, a) ==
    IF name \in observedAttributes /\ oldVal # newVal
    THEN /\ SetupsDone < MaxSetups
         /\ attrs' = [attrs EXCEPT ![e] = setupComponentTitle(a)]
         /\ head' = initImagePlaceholderHead(head)
         /\ fetches' = [fetches EXCEPT ![e] = initImagePlaceholderFetch(a, @)]
         /\ domRefPlayButton' = [domRefPlayButton EXCEPT ![e] = Some(Label(a))]
         /\ observers' = [observers EXCEPT ![e] =
                IF autoLoad(a) THEN initIntersectionObserver(@) ELSE @]
         /\ domRefFrame' = [domRefFrame EXCEPT ![e] = removePreviousIframe(@)]
         /\ UNCHANGED << iframeLoaded, domRefImg, listeners, preconnected,
                         rejections >>
    ELSE /\ attrs' = [attrs EXCEPT ![e] = a]
         /\ UNCHANGED << iframeLoaded, domRefFrame, domRefImg, domRefPlayButton,
                         observers, fetches, listeners, head, preconnected,
                         rejections >>

\* ------------------------------------------------- the callbacks
\* values the page may give attribute name
AttrValues(name) ==
    CASE name = "videoid" -> VideoIdValues
      [] name = "videotitle" -> VideoTitleValues
      [] name = "videoplay" -> VideoPlayValues
      [] name = "autoload" -> { << >> }
      [] name = "autoplay" -> { << "autoplay" >> }

\* the attributes the activation path reads
ActivationAttrs == {"videoid", "autoload", "autoplay"}
\* the attributes the labels and the start offset read
LabelAttrs == {"videotitle", "videoplay"}

\* element.setAttribute(name, v), through a setter or from markup
SetAttribute(e, name, v) ==
    /\ e \in elems
    /\ attributeChangedCallback(e, name, attrs[e][name], Some(v),
                                [attrs[e] EXCEPT ![name] = Some(v)])
    /\ last' = Ran(IF name = "videoid" THEN "videoid" ELSE "attribute", e)
    /\ UNCHANGED << elems, server >>

\* element.removeAttribute(name) of an attribute the element has
RemoveAttribute(e, name) ==
    /\ e \in elems
    /\ attrs[e][name] # None
    /\ attributeChangedCallback(e, name, attrs[e][name], None,
                                [attrs[e] EXCEPT ![name] = None])
    /\ last' = Ran(IF name = "videoid" THEN "videoid" ELSE "attribute", e)
    /\ UNCHANGED << elems, server >>

\* the element is inserted into a document (again)
connectedCallback(e) ==
    /\ e \in elems
    /\ listeners[e].click < MaxConnects
    /\ listeners' = [listeners EXCEPT ![e] =
            [click |-> @.click + 1, pointerover |-> TRUE]]
    /\ last' = Ran("connected", e)
    /\ UNCHANGED << elems, attrs, iframeLoaded, domRefFrame, domRefImg,
                    domRefPlayButton, observers, fetches, head, preconnected,
                    server, rejections >>

\* a click on the element: every registered click listener runs addIframe
Click(e) ==
    /\ e \in elems
    /\ listeners[e].click > 0
    /\ LET st == Times(listeners[e].click, attrs[e], Activation(e))
       IN  /\ iframeLoaded' = [iframeLoaded EXCEPT ![e] = st.iframeLoaded]
           /\ domRefFrame' = [domRefFrame EXCEPT ![e] = st.frame]
    /\ last' = Ran("click", e)
    /\ UNCHANGED << elems, attrs, domRefImg, domRefPlayButton, observers, fetches,
                    listeners, head, preconnected, server, rejections >>

\* a pointerover listener that also injects the iframe
PointerOverAddsIframe(e) ==
    /\ e \in elems
    /\ listeners[e].pointerover
    /\ LET g == warmConnections(Page)
           st == addIframe(attrs[e], Activation(e))
       IN  /\ head' = g.head
           /\ preconnected' = g.preconnected
           /\ iframeLoaded' = [iframeLoaded EXCEPT ![e] = st.iframeLoaded]
           /\ domRefFrame' = [domRefFrame EXCEPT ![e] = st.frame]
    /\ listeners' = [listeners EXCEPT ![e].pointerover = FALSE]
    /\ last' = Ran("pointerover", e)
    /\ UNCHANGED << elems, attrs, domRefImg, domRefPlayButton, observers, fetches,
                    server, rejections >>

\* pointerover: the { once: true } listener runs warmConnections and is removed
PointerOver(e) ==
    /\ e \in elems
    /\ listeners[e].pointerover
    /\ LET g == warmConnections(Page)
       IN  /\ head' = g.head
           /\ preconnected' = g.preconnected
    /\ listeners' = [listeners EXCEPT ![e].pointerover = FALSE]
    /\ last' = Ran("pointerover", e)
    /\ UNCHANGED << elems, attrs, iframeLoaded, domRefFrame, domRefImg,
                    domRefPlayButton, observers, fetches, server, rejections >>

\* observer o of e is notified of one entry (the browser has
\* IntersectionObserver); an element that was never in a document does not
\* intersect
IntersectionEntry(e, o, isIntersecting) ==
    /\ e \in elems
    /\ BagIn(o, observers[e])
    /\ o.observing
    /\ isIntersecting => listeners[e].click > 0
    /\ LET qualifies == isIntersecting /\ ~iframeLoaded[e]
           g == IF qualifies THEN warmConnections(Page) ELSE Page
           st == IF qualifies THEN addIframe(attrs[e], Activation(e))
                 ELSE Activation(e)
       IN  /\ head' = g.head
           /\ preconnected' = g.preconnected
           /\ iframeLoaded' = [iframeLoaded EXCEPT ![e] = st.iframeLoaded]
           /\ domRefFrame' = [domRefFrame EXCEPT ![e] = st.frame]
           /\ observers' = [observers EXCEPT ![e] =
                    (@ (-) SetToBag({ o })) (+)
                    SetToBag({ observerCallback(o, isIntersecting, iframeLoaded[e]) })]
    /\ last' = Ran("intersection", e)
    /\ UNCHANGED << elems, attrs, domRefImg, domRefPlayButton, fetches, listeners,
                    server, rejections >>

\* the fetch of a suspended initImagePlaceholder call of e, for video id, settles
FetchSettle(e, id) ==
    /\ e \in elems
    /\ BagIn(id, fetches[e])
    /\ LET r == server[id]
       IN  /\ domRefImg' = [domRefImg EXCEPT ![e] = resolvePlaceholder(r, attrs[e], @)]
           /\ rejections' = (rejections \/ Throws(r))
    /\ fetches' = [fetches EXCEPT ![e] = @ (-) SetToBag({ id })]
    /\ last' = Ran("fetchSettle", e)
    /\ UNCHANGED << elems, attrs, iframeLoaded, domRefFrame, domRefPlayButton,
                    observers, listeners, head, preconnected, server >>

Next ==
    \E e \in Elems :
        \/ \E name \in ActivationAttrs : \E v \in AttrValues(name) : SetAttribute(e, name, v)
        \/ \E name \in ActivationAttrs : RemoveAttribute(e, name)
        \/ connectedCallback(e)
        \/ Click(e)
        \/ PointerOver(e)
        \/ \E o \in BagToSet(observers[e]) : \E b \in BOOLEAN :
                IntersectionEntry(e, o, b)
        \/ \E id \in EncodedIds : FetchSettle(e, id)

Spec == Init /\ [][Next]_vars

\* several elements of one page, their videoid and autoload attributes, and
\* every path to warmConnections
NextPage ==
    \E e \in Elems :
        \/ SetAttribute(e, "videoid", << "1" >>)
        \/ SetAttribute(e, "autoload", << >>)
        \/ connectedCallback(e)
        \/ Click(e)
        \/ PointerOver(e)
        \/ \E o \in BagToSet(observers[e]) : \E b \in BOOLEAN :
                IntersectionEntry(e, o, b)
        \/ \E id \in EncodedIds : FetchSettle(e, id)

SpecPage == InitPage /\ [][NextPage]_vars

\* one element and the thumbnail resolver, on every response
NextThumb ==
    \E e \in Elems :
        \/ \E v \in VideoIdValues : SetAttribute(e, "videoid", v)
        \/ RemoveAttribute(e, "videoid")
        \/ connectedCallback(e)
        \/ Click(e)
        \/ \E id \in EncodedIds : FetchSettle(e, id)

SpecThumb == InitThumb /\ [][NextThumb]_vars

\* one element whose title, play label and start offset are configured too
\* (the metadata requests stay pending)
NextLabels ==
    \E e \in Elems :
        \/ \E name \in {"videoid"} \cup LabelAttrs : \E v \in AttrValues(name) :
                SetAttribute(e, name, v)
        \/ \E name \in {"videoid"} \cup LabelAttrs : RemoveAttribute(e, name)
        \/ SetAttribute(e, "autoload", << >>)
        \/ connectedCallback(e)
        \/ Click(e)
        \/ \E o \in BagToSet(observers[e]) : \E b \in BOOLEAN :
                IntersectionEntry(e, o, b)

SpecLabels == Init /\ [][NextLabels]_vars

\* ------------------------------------------------- reading a step
Iframes(e) == domRefFrame[e].iframes
Activated(e) == "lvo-activated" \in domRefFrame[e].classList

\* the step is a click on e
ClickStep(e) == last'.op = "click" /\ last'.e = e
\* the step changes the videoid attribute of e
VideoIdChange(e) == attrs'[e]["videoid"] # attrs[e]["videoid"]
\* the step adds an iframe to e
ActivationStep(e) == Len(Iframes(e)') > Len(Iframes(e))

C2_SetThenClickActivates ==
    [][ \A e \in Elems :
          ( /\ last.op = "videoid" /\ last.e = e
            /\ attrs[e]["videoid"] # None
            /\ attrs[e]["videoid"][1] # << >>
            /\ ClickStep(e) )
          => /\ Len(Iframes(e)') = 1
             /\ Contains(Iframes(e)'[1].src,
                         encodeURIComponent(attrs[e]["videoid"][1])) ]_vars

\* ------------------------------------------------- C3
\* C3: a change of videoid while the element holds an iframe leaves the frame
\* without iframe and without the class 'lvo-activated'.
C3_ChangeRemovesIframe ==
    [][ \A e \in Elems :
          (VideoIdChange(e) /\ Iframes(e) # << >>)
          => /\ Iframes(e)' = << >>
             /\ ~Activated(e)' ]_vars

\* videoid was just changed on an element that had been activated: the flag
\* is still set, the iframe and the class are gone
C3_Witness ==
    \E e \in Elems :
        /\ last.op = "videoid" /\ last.e = e
        /\ iframeLoaded[e]
        /\ Iframes(e) = << >>
        /\ ~Activated(e)

\* ------------------------------------------------- C4
\* C4: a change of videoid resets iframeLoaded: after every effective change
\* of videoid, iframeLoaded is false.
C4_ChangeResetsFlag ==
    [][ \A e \in Elems : VideoIdChange(e) => ~iframeLoaded'[e] ]_vars

\* ------------------------------------------------- C6
\* C6: the URL of an iframe built at activation has 'autoplay=1' iff, at that
\* moment, autoload is absent or autoload and autoplay are both present.
C6_AutoplayPolicy ==
    [][ \A e \in Elems :
          ActivationStep(e) =>
            ( Contains(Last(Iframes(e)').src, << "autoplay=1" >>)
              <=> ( \/ attrs[e]["autoload"] = None
                    \/ attrs[e]["autoload"] # None /\ attrs[e]["autoplay"] # None ) ) ]_vars

\* an intersection has activated an element with autoload and without
\* autoplay: its iframe URL has no autoplay=1
C6_Witness ==
    \E e \in Elems :
        /\ \E o \in BagToSet(observers[e]) : o.fired = 1
        /\ Len(Iframes(e)) = 1
        /\ ~Contains(Iframes(e)[1].src, << "autoplay=1" >>)

Hint(url) == [rel |-> "preconnect", href |-> url]

\* the three hints of connection warm-up, as the head holds them
WarmUpHints ==
    << Hint(<< "https://f.vimeocdn.com", "/" >>),
       Hint(<< "https://player.vimeo.com", "/" >>),
       Hint(<< "https://i.vimeocdn.com", "/" >>) >>

\* warm-up has run before: only it adds the hint for f.vimeocdn.com
WarmedBefore == \E i \in 1..Len(head) : head[i] = WarmUpHints[1]

\* the step invokes warmConnections on e: the once-listener for pointerover
\* runs, or an observer callback activates the element
WarmUpStep(e) ==
    \/ listeners[e].pointerover /\ ~listeners'[e].pointerover
    \/ observers'[e] # observers[e] /\ ~iframeLoaded[e] /\ iframeLoaded'[e]

\* C5: the first invocation of warmConnections on the page appends exactly the
\* three preconnect hints to the head, every later one appends nothing,
\* whichever element invokes it, by hover or by intersection.
C5_WarmUpOnce ==
    [][ \A e \in Elems :
          WarmUpStep(e) =>
            IF WarmedBefore THEN head' = head ELSE head' = head \o WarmUpHints ]_vars

\* one element has warmed up by hover, another by intersection, and the head
\* holds the hint for f.vimeocdn.com once
C5_Witness ==
    \E e1, e2 \in Elems :
        /\ e1 # e2
        /\ listeners[e1].click > 0 /\ ~listeners[e1].pointerover
        /\ \E o \in BagToSet(observers[e2]) : o.fired = 1
        /\ Cardinality({ i \in 1..Len(head) : head[i] = WarmUpHints[1] }) = 1

\* ------------------------------------------------- C8
Chars(t) == { t[i] : i \in 1..Len(t) }

\* the text of t after its final "/" (all of t when it has none)
LastSegment(t) ==
    CHOOSE u \in { SubSeq(t, i, Len(t)) : i \in 1..(Len(t) + 1) } :
        /\ "/" \notin Chars(u)
        /\ u = t \/ t[Len(t) - Len(u)] = "/"

\* the text of u that precedes its first "_" (all of u when it has none)
BeforeUnderscore(u) ==
    CHOOSE w \in { SubSeq(u, 1, i) : i \in 0..Len(u) } :
        /\ "_" \notin Chars(w)
        /\ w = u \/ u[Len(w) + 1] = "_"

\* the response is one the resolver can use
Usable(r) == r.ok /\ r.body # << >> /\ r.body[1].has /\ r.body[1].type = "string"

\* C8: once a thumbnail is applied, the three image sources are the CDN URLs
\* built from the image id of a thumbnail_large the endpoint returns: the part
\* of its last path segment that precedes the first "_".
C8_ImageIdAndUrls ==
    \A e \in Elems :
        domRefImg[e].src # None =>
            \E id \in EncodedIds :
                /\ Usable(server[id])
                /\ LET x == BeforeUnderscore(LastSegment(server[id].body[1].thumbnail_large))
                   IN  /\ domRefImg[e].webp =
                            Some(<< "https://i.vimeocdn.com/video/" >> \o x
                                 \o << ".webp?mw=1100&mh=619&q=70" >>)
                       /\ domRefImg[e].jpeg =
                            Some(<< "https://i.vimeocdn.com/video/" >> \o x
                                 \o << ".jpg?mw=1100&mh=619&q=70" >>)
                       /\ domRefImg[e].src = domRefImg[e].jpeg

\* the endpoint answered //9_ and the fallback src carries the image id 9
C8_Witness ==
    \E e \in Elems :
        /\ server[<< "1" >>] = Json(<< Field("string", << "/", "/", "9", "_" >>) >>)
        /\ domRefImg[e].src =
              Some(<< "https://i.vimeocdn.com/video/", "9", ".jpg?mw=1100&mh=619&q=70" >>)

\* ------------------------------------------------- C9
\* C9: once no fetch is in flight, the image sources are those of the
\* thumbnail of the video id the element has now (when the endpoint has one).
C9_LastChangeWins ==
    \A e \in Elems :
        ( /\ e \in elems
          /\ fetches[e] = EmptyBag
          /\ attrs[e]["videoid"] # None
          /\ Usable(server[videoId(attrs[e])]) )
        => LET x == imgId(server[videoId(attrs[e])].body[1].thumbnail_large)
           IN  /\ domRefImg[e].webp = Some(posterUrlWebp(x))
               /\ domRefImg[e].jpeg = Some(posterUrlJpeg(x))
               /\ domRefImg[e].src = Some(posterUrlJpeg(x))

\* ------------------------------------------------- C10
DefaultImg ==
    [webp |-> None, jpeg |-> None, src |-> None, ariaLabel |-> None, alt |-> None]

\* the step settles the fetch of e for video id
SettleStep(e, id) ==
    /\ BagIn(id, fetches[e])
    /\ fetches'[e] = fetches[e] (-) SetToBag({ id })

\* C10: when the fetch fails or the response has an unexpected shape, the image
\* sources and labels are left in their default state and the activation
\* state is unchanged.
C10_FailureLeavesDefault ==
    [][ \A e \in Elems : \A id \in EncodedIds :
          (SettleStep(e, id) /\ ~Usable(server[id]))
          => /\ domRefImg'[e] = DefaultImg
             /\ UNCHANGED << iframeLoaded, domRefFrame >> ]_vars

\* ------------------------------------------------- C11
\* the step issues a request to the metadata endpoint for e
FetchIssued(e) == BagCardinality(fetches'[e]) > BagCardinality(fetches[e])

\* C11: component setup issues no request to the metadata endpoint when the
\* element has no video id (videoid absent or empty).
C11_NoRequestWithoutId ==
    [][ \A e \in Elems :
          FetchIssued(e) =>
            /\ attrs'[e]["videoid"] # None
            /\ attrs'[e]["videoid"][1] # << >> ]_vars

\* ------------------------------------------------- C12
\* the step is an observer callback that activates e
IntersectionActivates(e) == ActivationStep(e) /\ observers'[e] # observers[e]

\* C12: an intersection activates the element only if its autoload attribute
\* is present at that moment.
C12_IntersectionNeedsAutoLoad ==
    [][ \A e \in Elems :
          IntersectionActivates(e) => attrs[e]["autoload"] # None ]_vars

\* ------------------------------------------------- C13
\* an intersecting entry would activate e now: an observer observes it and
\* the callback's guard !this.iframeLoaded passes
IntersectionWouldActivate(e) ==
    /\ ~iframeLoaded[e]
    /\ \E o \in BagToSet(observers[e]) : o.observing

\* C13: an element in a document with autoload set, a video id and no iframe
\* is activated by the next intersection, whatever the order in which the
\* attributes were set and whatever was activated before.
C13_AutoLoadArmed ==
    \A e \in Elems :
        ( /\ e \in elems
          /\ listeners[e].click > 0
          /\ attrs[e]["autoload"] # None
          /\ attrs[e]["videoid"] # None
          /\ attrs[e]["videoid"][1] # << >>
          /\ Iframes(e) = << >> )
        => IntersectionWouldActivate(e)

\* ------------------------------------------------- C14
\* C14: the head holds at most one preconnect link for each origin.
C14_OneHintPerOrigin ==
    \A i, j \in 1..Len(head) : head[i].href = head[j].href => i = j

\* ------------------------------------------------- C15
\* the step runs the pointerover listener of e
PointerOverStep(e) == listeners[e].pointerover /\ ~listeners'[e].pointerover

\* C15: a pointerover only warms connections up: no element gets an iframe,
\* iframeLoaded, the frame's class and the placeholder's sources keep their
\* values.
C15_PointerOverOnlyWarms ==
    [][ \A e \in Elems :
          PointerOverStep(e) =>
            UNCHANGED << iframeLoaded, domRefFrame, domRefImg >> ]_vars

\* the element was hovered, warm-up has run, and the element is still idle
C15_Witness ==
    \E e \in Elems :
        /\ listeners[e].click > 0 /\ ~listeners[e].pointerover
        /\ preconnected
        /\ observers[e] = EmptyBag
        /\ ~iframeLoaded[e] /\ Iframes(e) = << >> /\ ~Activated(e)

\* ------------------------------------------------- C16
\* the step sets or removes an attribute of e without changing its videoid:
\* another attribute changes, or videoid is set to the value it has
NoVideoIdChangeStep(e) ==
    /\ ~VideoIdChange(e)
    /\ \/ attrs'[e] # attrs[e]
       \/ last'.op = "videoid" /\ last'.e = e

\* C16: the attribute-change handler does nothing unless videoid really
\* changes: no fetch, no observer, labels untouched, iframe and class kept.
C16_OnlyRealChange ==
    [][ \A e \in Elems :
          NoVideoIdChangeStep(e) =>
            /\ UNCHANGED << fetches, observers, head, domRefPlayButton, domRefImg,
                            domRefFrame, iframeLoaded >>
            /\ attrs'[e]["title"] = attrs[e]["title"] ]_vars

\* videoid was just set to the value it had, on an activated element whose
\* title was configured after setup: iframe, class and labels are as before
C16_Witness ==
    \E e \in Elems :
        /\ last.op = "videoid" /\ last.e = e
        /\ Iframes(e) # << >> /\ Activated(e)
        /\ attrs[e]["videotitle"] # None
        /\ domRefPlayButton[e] = Some(<< "Play", ": ", "Video" >>)

\* ------------------------------------------------- C17
\* C17: the frame holds at most one iframe, and holds one iff it carries the
\* class 'lvo-activated'.
C17_OneIframeIffActivated ==
    \A e \in Elems :
        /\ Len(Iframes(e)) <= 1
        /\ Iframes(e) # << >> <=> Activated(e)

\* an element activated by intersection after warm-up by hover, its thumbnail
\* applied: one iframe, and the class
C17_Witness ==
    \E e \in Elems :
        /\ Len(Iframes(e)) = 1 /\ Activated(e)
        /\ \E o \in BagToSet(observers[e]) : o.fired = 1
        /\ ~listeners[e].pointerover /\ listeners[e].click > 0
        /\ domRefImg[e].src # None

\* ------------------------------------------------- C18
\* C18: an iframe that is present plays the video the element names now: its
\* URL is that of the percent-encoded value of the videoid attribute.
C18_IframeOfCurrentId ==
    \A e \in Elems : \A i \in 1..Len(Iframes(e)) :
        \E rest \in { SubSeq(Iframes(e)[i].src, k, Len(Iframes(e)[i].src))
                        : k \in 1..(Len(Iframes(e)[i].src) + 1) } :
            Iframes(e)[i].src =
                << "https://player.vimeo.com", "/video/" >>
                    \o encodeURIComponent(
                         IF attrs[e]["videoid"] = None THEN << >>
                         ELSE attrs[e]["videoid"][1])
                    \o << "?" >> \o rest

\* the iframe of an element whose videoid is "/" carries %2F
C18_Witness ==
    \E e \in Elems :
        /\ attrs[e]["videoid"] = Some(<< "/" >>)
        /\ Len(Iframes(e)) = 1
        /\ Contains(Iframes(e)[1].src, << "/video/", "%", "2", "F", "?" >>)

\* ------------------------------------------------- C19
\* C19: the play label and the start offset are independent: a step that
\* changes one of videoPlay and videoStartAt leaves the other as it was.
C19_LabelAndOffsetIndependent ==
    [][ \A e \in Elems :
          /\ videoPlay(attrs'[e]) # videoPlay(attrs[e])
                => videoStartAt(attrs'[e]) = videoStartAt(attrs[e])
          /\ videoStartAt(attrs'[e]) # videoStartAt(attrs[e])
                => videoPlay(attrs'[e]) = videoPlay(attrs[e]) ]_vars

====
